---- MODULE Spec2Model ----
(***************************************************************************)
(* Single-table design over a DynamoDB-like store: key codec, item         *)
(* envelope, generic store access layer (PutItem / GetItem / Query with    *)
(* page tokens) and the User / Order / Product repositories.               *)
(*                                                                         *)
(* The repository exists in several snapshots; `variant` selects the one a *)
(* behaviour runs:                                                         *)
(*   "main"       src/main.go              untyped Item, no validation     *)
(*   "datastore"  src/internal/datastore   typed items, no validation      *)
(*   "repository" src/repository           validation in the repositories  *)
(* and `models` selects the Validate methods of package models:            *)
(*   "manual"     src/models/models.go:1-78     hand-written checks        *)
(*   "tags"       src/models/models.go:80-196   validator struct tags      *)
(*                                                                         *)
(* Strings that are ordered or taken apart (keys, emails, ids) are         *)
(* sequences of byte values, ordered as DynamoDB orders sort keys (byte    *)
(* by byte).  Strings that are only compared for equality stay TLA+        *)
(* strings.                                                                *)
(***************************************************************************)
EXTENDS Integers, Sequences, FiniteSets, TLC

VARIABLES
    variant,    \* which snapshot of the access layer runs
    models,     \* which snapshot of package models runs
    table,      \* the DynamoDB table: a set of attribute maps
    last,       \* the last repository call: its arguments and what it returned
    lastPut,    \* history: key pair -> the entity of the latest successful Put
    trav,       \* the caller's pagination loop (main's "for { ... }")
    ops,        \* number of Put calls made so far
    conc,       \* calls in flight when several callers share a repository
    ddl         \* the table as the store has it, and a call of EnsureTableExists

vars == <<variant, models, table, last, lastPut, trav, ops, conc, ddl>>

-----------------------------------------------------------------------------
(* Bounds of the model.                                                    *)

\* Put calls in one behaviour of Spec.
MaxOps == 3

\* Largest Limit a caller passes.
MaxLimit == 2

\* Size of one Query response of the store, in size units; stands for the
\* 1 MB a DynamoDB Query reads per call.  An item weighs 1 unit plus one per
\* product line, so two three-line orders do not fit one response.
PageCap == 7

-----------------------------------------------------------------------------
(* Byte strings.                                                           *)

\* "USER#"
S_USER == <<85, 83, 69, 82, 35>>
\* "PROFILE#"
S_PROFILE == <<80, 82, 79, 70, 73, 76, 69, 35>>
\* "ORDER#"
S_ORDER == <<79, 82, 68, 69, 82, 35>>
\* "PRODUCT#"
S_PRODUCT == <<80, 82, 79, 68, 85, 67, 84, 35>>
\* "PRODUCT#ALL"
S_PRODUCT_ALL == <<80, 82, 79, 68, 85, 67, 84, 35, 65, 76, 76>>

\* "@" and "."
ChAt == <<64>>
ChDot == <<46>>

\* s begins with p (the store's begins_with)
BeginsWith(s, p) ==
    /\ Len(s) >= Len(p)
    /\ \A i \in 1..Len(p) : s[i] = p[i]

\* a < b, byte by byte (the store's order of sort keys)
StrLess(a, b) ==
    \/ /\ Len(a) < Len(b)
       /\ \A i \in 1..Len(a) : a[i] = b[i]
    \/ \E k \in 1..Len(a) :
          /\ k <= Len(b)
          /\ \A i \in 1..(k-1) : a[i] = b[i]
          /\ a[k] < b[k]

Min(a, b) == IF a < b THEN a ELSE b

\* The absent value of a pointer, an error or an option.
Nil == [nil |-> TRUE]

-----------------------------------------------------------------------------
(* Key codec.                                                              *)

NewUserPK(email) == S_USER \o email

\* A slip in the profile sort key: the partition's prefix.
NewUserSK_UserPrefix(email) == S_USER \o email

NewUserSK(email) == S_PROFILE \o email

\* A slip in the order sort key: the prefix of the profile.
NewOrderSK_ProfilePrefix(orderID) == S_PROFILE \o orderID

NewOrderSK(orderID) == S_ORDER \o orderID

ProductPK == S_PRODUCT_ALL

ProductSK(productID) == S_PRODUCT \o productID

\* Entity types
EntityUser == "USER"
EntityOrder == "ORDER"
EntityProduct == "PRODUCT"

-----------------------------------------------------------------------------
(* Errors: kind, and the operation context the error is wrapped with ("" = *)
(* returned as the callee produced it).                                    *)

NoErr == [kind |-> "nil", ctx |-> ""]

ErrNotFound == [kind |-> "notfound", ctx |-> ""]

ErrValidation == [kind |-> "validation", ctx |-> ""]

ErrStore(ctx) == [kind |-> "store", ctx |-> ctx]

-----------------------------------------------------------------------------
(* Package models: Validate.                                               *)

\* validator's "email" rule, reduced to its shape: local@label.tld with
\* non-empty parts.
IsEmail(s) ==
    \E i \in 2..(Len(s) - 3) :
        /\ s[i] = ChAt[1]
        /\ \A j \in 1..Len(s) : j # i => s[j] # ChAt[1]
        /\ \E d \in (i + 2)..(Len(s) - 1) : s[d] = ChDot[1]
        /\ s[i + 1] # ChDot[1]
        /\ s[Len(s)] # ChDot[1]

\* validator's order status rule (oneof / OrderStatus.IsValid)
OrderStatusIsValid(st) ==
    st \in {"pending", "processing", "completed", "cancelled"}

UserValidate(m, u) ==
    IF m = "manual"
    THEN u.Email # <<>> /\ u.Name # ""
    ELSE IsEmail(u.Email) /\ u.Name # ""

OrderValidate(m, o) ==
    IF m = "manual"
    THEN /\ o.OrderID # <<>>
         /\ o.UserEmail # <<>>
         /\ o.Status # ""
         /\ Len(o.Products) # 0
    ELSE /\ o.OrderID # <<>>
         /\ IsEmail(o.UserEmail)
         /\ OrderStatusIsValid(o.Status)
         /\ o.Total # 0 /\ o.Total >= 0
         /\ Len(o.Products) >= 1
         /\ \A i \in 1..Len(o.Products) : o.Products[i] # ""

\* A slip in Product.Validate: a stock of zero refused.
ProductValidate_StockPositive(m, p) ==
    /\ p.ProductID # <<>>
    /\ p.Category # ""
    /\ p.Name # ""
    /\ p.Price > 0
    /\ p.Stock > 0

ProductValidate(m, p) ==
    IF m = "manual"
    THEN /\ p.ProductID # <<>>
         /\ p.Category # ""
         /\ p.Name # ""
         /\ ~(p.Price <= 0)
         /\ ~(p.Stock < 0)
    ELSE /\ p.ProductID # <<>>
         /\ p.Category # ""
         /\ p.Name # ""
         /\ p.Price # 0 /\ p.Price > 0
         /\ p.Stock >= 0

-----------------------------------------------------------------------------
(* Item envelope: attributevalue.MarshalMap / UnmarshalMap.                *)
(* An attribute value is [S |-> string], [N |-> number], [L |-> list] or   *)
(* [M |-> map]; a struct becomes a map keyed by its dynamodbav tags.       *)

\* time.Time: wall clock (sec, nsec) and whether a monotonic reading is
\* attached (time.Now() attaches one; the stored form cannot carry it).
ZeroTime == [sec |-> 0, nsec |-> 0, mono |-> FALSE]

\* Time.Format(RFC3339Nano): the wall clock to the nanosecond.
FormatTime(t) == <<t.sec, t.nsec>>

\* time.Parse(RFC3339Nano, s)
ParseTime(s) == [sec |-> s[1], nsec |-> s[2], mono |-> FALSE]

\* A slip in the struct tags: the name attribute filled from Email.
MarshalUser_NameFromEmail(u) ==
    [email      |-> [S |-> u.Email],
     name       |-> [S |-> u.Email],
     created_at |-> [S |-> FormatTime(u.CreatedAt)]]

MarshalUser(u) ==
    [email      |-> [S |-> u.Email],
     name       |-> [S |-> u.Name],
     created_at |-> [S |-> FormatTime(u.CreatedAt)]]

UnmarshalUser(m) ==
    [Email     |-> m.email.S,
     Name      |-> m.name.S,
     CreatedAt |-> ParseTime(m.created_at.S)]

MarshalOrder(o) ==
    [order_id   |-> [S |-> o.OrderID],
     user_email |-> [S |-> o.UserEmail],
     status     |-> [S |-> o.Status],
     total      |-> [N |-> o.Total],
     products   |-> [L |-> [i \in 1..Len(o.Products) |-> [S |-> o.Products[i]]]],
     created_at |-> [S |-> FormatTime(o.CreatedAt)]]

UnmarshalOrder(m) ==
    [OrderID   |-> m.order_id.S,
     UserEmail |-> m.user_email.S,
     Status    |-> m.status.S,
     Total     |-> m.total.N,
     Products  |-> [i \in 1..Len(m.products.L) |-> m.products.L[i].S],
     CreatedAt |-> ParseTime(m.created_at.S)]

\* Product has a created_at attribute only in the "tags" snapshot.
MarshalProduct(mv, p) ==
    IF mv = "manual"
    THEN [product_id |-> [S |-> p.ProductID],
          category   |-> [S |-> p.Category],
          name       |-> [S |-> p.Name],
          price      |-> [N |-> p.Price],
          stock      |-> [N |-> p.Stock]]
    ELSE [product_id |-> [S |-> p.ProductID],
          category   |-> [S |-> p.Category],
          name       |-> [S |-> p.Name],
          price      |-> [N |-> p.Price],
          stock      |-> [N |-> p.Stock],
          created_at |-> [S |-> FormatTime(p.CreatedAt)]]

UnmarshalProduct(mv, m) ==
    [ProductID |-> m.product_id.S,
     Category  |-> m.category.S,
     Name      |-> m.name.S,
     Price     |-> m.price.N,
     Stock     |-> m.stock.N,
     CreatedAt |-> IF mv = "manual" THEN ZeroTime ELSE ParseTime(m.created_at.S)]

\* MarshalMap(GenericItem[T]{PK, SK, EntityType, Data})
MarshalItem(item, dataAv) ==
    [PK          |-> [S |-> item.PK],
     SK          |-> [S |-> item.SK],
     entity_type |-> [S |-> item.EntityType],
     data        |-> [M |-> dataAv]]

\* UnmarshalMap(av, &GenericItem[T]{}); T is given by the entity type the
\* caller instantiates the generic function with.
UnmarshalItem(mv, kind, av) ==
    [PK         |-> av.PK.S,
     SK         |-> av.SK.S,
     EntityType |-> av.entity_type.S,
     Data       |-> CASE kind = EntityUser    -> UnmarshalUser(av.data.M)
                      [] kind = EntityOrder   -> UnmarshalOrder(av.data.M)
                      [] kind = EntityProduct -> UnmarshalProduct(mv, av.data.M)]

\* MarshalMap(PageToken{PK, SK}) and UnmarshalMap(LastEvaluatedKey, &PageToken{})
MarshalToken(tok) == [PK |-> [S |-> tok.PK], SK |-> [S |-> tok.SK]]

UnmarshalToken(key) == [PK |-> key.PK.S, SK |-> key.SK.S]

\* main.go: Item.Data is interface{}; UnmarshalMap fills it with a
\* map[string]interface{} and UnmarshalData sends that map through
\* encoding/json into the struct.  The structs of main.go carry no json
\* tags, so a key fills a field only when it equals the field's name up to
\* case: email, name, status, total and products do, created_at, order_id
\* and user_email do not and leave the zero value.
UnmarshalDataUser(m) ==
    [Email |-> m.email.S, Name |-> m.name.S, CreatedAt |-> ZeroTime]

UnmarshalDataOrder(m) ==
    [OrderID   |-> <<>>,
     UserEmail |-> <<>>,
     Status    |-> m.status.S,
     Total     |-> m.total.N,
     Products  |-> [i \in 1..Len(m.products.L) |-> m.products.L[i].S],
     CreatedAt |-> ZeroTime]

-----------------------------------------------------------------------------
(* The external store: what the DynamoDB client calls do to the table.     *)

KeyOf(av) == <<av.PK.S, av.SK.S>>

\* A slip in client.PutItem: the partition of the item cleared by the write.
DbPutItem_ClearsPartition(t, av) == {i \in t : i.PK.S # av.PK.S} \cup {av}

\* client.PutItem: the item replaces whatever the table holds at its key pair.
DbPutItem(t, av) == {i \in t : KeyOf(i) # KeyOf(av)} \cup {av}

\* client.GetItem: result.Item, Nil when the key pair holds nothing.
DbGetItem(t, pk, sk) ==
    IF \E i \in t : KeyOf(i) = <<pk, sk>>
    THEN CHOOSE i \in t : KeyOf(i) = <<pk, sk>>
    ELSE Nil

\* Items in ascending sort-key order.
RECURSIVE SortBySK(_)
SortBySK(S) ==
    IF S = {} THEN <<>>
    ELSE LET m == CHOOSE x \in S : \A y \in S : ~StrLess(y.SK.S, x.SK.S)
         IN  <<m>> \o SortBySK(S \ {m})

\* Size of an item in the units of PageCap.
ItemSize(av) ==
    1 + (IF "products" \in DOMAIN av.data.M THEN Len(av.data.M.products.L) ELSE 0)

RECURSIVE SumSize(_, _)
SumSize(seq, k) == IF k = 0 THEN 0 ELSE ItemSize(seq[k]) + SumSize(seq, k - 1)

\* The ExclusiveStartKey must lie inside the key condition, or the store
\* rejects the request.
StartKeyValid(in) ==
    \/ in.ExclusiveStartKey = Nil
    \/ /\ in.ExclusiveStartKey.PK.S = in.pk
       /\ BeginsWith(in.ExclusiveStartKey.SK.S, in.sk)

\* A slip in the read position: the item at ExclusiveStartKey read again.
DbRange_FromStartKey(t, in) ==
    {i \in t : /\ i.PK.S = in.pk
               /\ BeginsWith(i.SK.S, in.sk)
               /\ \/ in.ExclusiveStartKey = Nil
                  \/ ~StrLess(i.SK.S, in.ExclusiveStartKey.SK.S)}

\* The key condition "PK = :pk AND begins_with(SK, :sk)", read after
\* ExclusiveStartKey.
DbRange(t, in) ==
    {i \in t : /\ i.PK.S = in.pk
               /\ BeginsWith(i.SK.S, in.sk)
               /\ \/ in.ExclusiveStartKey = Nil
                  \/ StrLess(in.ExclusiveStartKey.SK.S, i.SK.S)}

\* The first k items fit in one response; one item always does.
Fits(sorted, k) == k <= 1 \/ SumSize(sorted, k) <= PageCap

\* The number of leading items one response holds.
BySize(sorted) ==
    CHOOSE k \in 0..Len(sorted) :
        Fits(sorted, k) /\ (k = Len(sorted) \/ ~Fits(sorted, k + 1))

\* The number of items read: up to Limit, up to a full response.
PageLen(sorted, in) ==
    IF in.HasLimit THEN Min(in.Limit, BySize(sorted)) ELSE BySize(sorted)

\* The response: LastEvaluatedKey is the key of the last item read unless
\* the read reached the end of the range without being stopped by Limit.
DbPage(sorted, in, k) ==
    [Items            |-> SubSeq(sorted, 1, k),
     LastEvaluatedKey |-> IF k < Len(sorted) \/ (in.HasLimit /\ k = in.Limit)
                          THEN [PK |-> sorted[k].PK, SK |-> sorted[k].SK]
                          ELSE Nil]

DbQueryOn(sorted, in) == DbPage(sorted, in, PageLen(sorted, in))

\* client.Query: reads the matching items after ExclusiveStartKey in
\* ascending sort-key order and stops at Limit items, at a full response
\* (PageCap), or at the end of the range.
DbQuery(t, in) == DbQueryOn(SortBySK(DbRange(t, in)), in)

-----------------------------------------------------------------------------
(* Generic store access layer.  `fail` says whether the client call comes  *)
(* back with an error (network, throttling, ...).                          *)

\* A slip in PutItem: the client call made again after an error, the first
\* error returned all the same.
PutItem_AgainAfterError(t, av, fail) ==
    IF fail
    THEN [err |-> ErrStore(""), table |-> DbPutItem(t, av)]
    ELSE [err |-> NoErr, table |-> DbPutItem(t, av)]

\* A slip in PutItem: the table emptied before the write.
PutItem_KeepsOnlyLast(t, av, fail) ==
    IF fail
    THEN [err |-> ErrStore(""), table |-> t]
    ELSE [err |-> NoErr, table |-> {av}]

\* PutItem[T]: marshal, client.PutItem, "return err" as the client gave it.
PutItem(t, av, fail) ==
    IF fail
    THEN [err |-> ErrStore(""), table |-> t]
    ELSE [err |-> NoErr, table |-> DbPutItem(t, av)]

\* GetItem[T] of the typed layers: ErrNotFound when result.Item is nil.
GetItem(mv, kind, t, pk, sk, fail) ==
    LET item == DbGetItem(t, pk, sk)
    IN  IF fail THEN [err |-> ErrStore("failed to get item"), out |-> Nil]
        ELSE IF item = Nil THEN [err |-> ErrNotFound, out |-> Nil]
        ELSE [err |-> NoErr, out |-> UnmarshalItem(mv, kind, item)]

\* Store.GetItem of main.go: "return nil, nil" when result.Item is nil.
MainGetItem(t, pk, sk, fail) ==
    LET item == DbGetItem(t, pk, sk)
    IN  IF fail THEN [err |-> ErrStore("failed to get item"), out |-> Nil]
        ELSE IF item = Nil THEN [err |-> NoErr, out |-> Nil]
        ELSE [err |-> NoErr, out |-> item]

\* A slip in Query: a limit of one item when no options are given.
QueryInput_DefaultLimit(pk, skPrefix, opts) ==
    [pk                |-> pk,
     sk                |-> skPrefix,
     HasLimit          |-> opts = Nil \/ opts.Limit > 0,
     Limit             |-> IF opts = Nil THEN 1
                           ELSE IF opts.Limit > 0 THEN opts.Limit ELSE 0,
     ExclusiveStartKey |-> IF opts # Nil /\ opts.PageToken # Nil
                           THEN MarshalToken(opts.PageToken)
                           ELSE Nil]

\* A slip in Query: a limit of one sent for options whose Limit is not
\* positive.
QueryInput_AtLeastOne(pk, skPrefix, opts) ==
    [pk                |-> pk,
     sk                |-> skPrefix,
     HasLimit          |-> opts # Nil,
     Limit             |-> IF opts # Nil
                           THEN (IF opts.Limit > 0 THEN opts.Limit ELSE 1)
                           ELSE 0,
     ExclusiveStartKey |-> IF opts # Nil /\ opts.PageToken # Nil
                           THEN MarshalToken(opts.PageToken)
                           ELSE Nil]

\* A slip in Query: the limit never sent to the store.
QueryInput_NoLimit(pk, skPrefix, opts) ==
    [pk                |-> pk,
     sk                |-> skPrefix,
     HasLimit          |-> FALSE,
     Limit             |-> 0,
     ExclusiveStartKey |-> IF opts # Nil /\ opts.PageToken # Nil
                           THEN MarshalToken(opts.PageToken)
                           ELSE Nil]

\* A slip in Query: the page token forwarded only inside "if opts.Limit > 0".
QueryInput_TokenNeedsLimit(pk, skPrefix, opts) ==
    [pk                |-> pk,
     sk                |-> skPrefix,
     HasLimit          |-> opts # Nil /\ opts.Limit > 0,
     Limit             |-> IF opts # Nil /\ opts.Limit > 0 THEN opts.Limit ELSE 0,
     ExclusiveStartKey |-> IF opts # Nil /\ opts.Limit > 0 /\ opts.PageToken # Nil
                           THEN MarshalToken(opts.PageToken)
                           ELSE Nil]

\* The QueryInput that Query builds from its options.
QueryInput(pk, skPrefix, opts) ==
    [pk                |-> pk,
     sk                |-> skPrefix,
     HasLimit          |-> opts # Nil /\ opts.Limit > 0,
     Limit             |-> IF opts # Nil /\ opts.Limit > 0 THEN opts.Limit ELSE 0,
     ExclusiveStartKey |-> IF opts # Nil /\ opts.PageToken # Nil
                           THEN MarshalToken(opts.PageToken)
                           ELSE Nil]

\* A slip in Query: a token made of the partition key only.
NextPageToken_NoSortKey(lek) ==
    IF lek # Nil THEN [PK |-> lek.PK.S, SK |-> <<>>] ELSE Nil

\* A slip in Query: LastEvaluatedKey never handed on.
NextPageToken_Dropped(lek) == Nil

\* How Query turns the store's LastEvaluatedKey into NextPageToken.
NextPageToken(lek) == IF lek # Nil THEN UnmarshalToken(lek) ELSE Nil

\* A slip in Query: ErrNotFound for a response without items.
QueryResult_NotFoundWhenEmpty(mv, kind, result) ==
    IF result.Items = <<>>
    THEN [err |-> ErrNotFound, Items |-> <<>>, NextPageToken |-> Nil, lek |-> Nil]
    ELSE [err   |-> NoErr,
          Items |-> [i \in 1..Len(result.Items) |->
                        UnmarshalItem(mv, kind, result.Items[i])],
          NextPageToken |-> NextPageToken(result.LastEvaluatedKey),
          lek   |-> result.LastEvaluatedKey]

\* Query[T] after a client.Query that succeeded: the items unmarshalled,
\* the token made of LastEvaluatedKey.
QueryResult(mv, kind, result) ==
    [err   |-> NoErr,
     Items |-> [i \in 1..Len(result.Items) |->
                   UnmarshalItem(mv, kind, result.Items[i])],
     NextPageToken |-> NextPageToken(result.LastEvaluatedKey),
     lek   |-> result.LastEvaluatedKey]

\* Query[T] from client.Query on.
QueryWith(mv, kind, t, in, fail) ==
    IF fail \/ ~StartKeyValid(in)
    THEN [err |-> ErrStore("failed to query items"),
          Items |-> <<>>, NextPageToken |-> Nil, lek |-> Nil]
    ELSE QueryResult(mv, kind, DbQuery(t, in))

\* Query[T] with pagination support.
Query(mv, kind, t, pk, skPrefix, opts, fail) ==
    QueryWith(mv, kind, t, QueryInput(pk, skPrefix, opts), fail)

\* Store.Query of main.go: no options, items left as attribute maps.
MainQueryResult(result) ==
    [err |-> NoErr, Items |-> result.Items, lek |-> result.LastEvaluatedKey]

MainQuery(t, pk, skPrefix, fail) ==
    IF fail
    THEN [err |-> ErrStore("failed to query items"), Items |-> <<>>, lek |-> Nil]
    ELSE MainQueryResult(DbQuery(t, QueryInput(pk, skPrefix, Nil)))

-----------------------------------------------------------------------------
(* Records of a call and of the pagination loop.                           *)

NoCalls == [put |-> 0, get |-> 0, query |-> 0]

IsPutOp(op) == op \in {"UserPut", "OrderPut", "ProductPut"}

\* A call that has not happened.
NoCall ==
    [op |-> "none", pk |-> <<>>, sk |-> <<>>, in |-> Nil, opts |-> Nil,
     err |-> NoErr, out |-> Nil, items |-> <<>>, page |-> <<>>,
     token |-> Nil, lek |-> Nil, prev |-> Nil, calls |-> NoCalls]

\* The record of a Put call; prev is what the table held at the key pair
\* when the call began.
PutCall(op, pk, sk, e, err, called) ==
    [NoCall EXCEPT !.op = op, !.pk = pk, !.sk = sk, !.in = e, !.err = err,
                   !.prev = DbGetItem(table, pk, sk),
                   !.calls = [NoCalls EXCEPT !.put = IF called THEN 1 ELSE 0]]

\* The record of a Get call.
GetCall(op, pk, sk, err, out) ==
    [NoCall EXCEPT !.op = op, !.pk = pk, !.sk = sk, !.err = err, !.out = out,
                   !.calls = [NoCalls EXCEPT !.get = 1]]

\* The record of a List call: the store layer's items and token, and the
\* page the repository makes of them.
ListCall(op, pk, sk, opts, r) ==
    [NoCall EXCEPT !.op = op, !.pk = pk, !.sk = sk, !.opts = opts,
                   !.err = r.err, !.items = r.Items, !.page = r.page,
                   !.token = IF r.err = NoErr THEN r.NextPageToken ELSE Nil,
                   !.lek = r.lek,
                   !.calls = [NoCalls EXCEPT !.query = 1]]

\* The table created and active, as EnsureTableExists has left it before the
\* repositories are used; no call of EnsureTableExists going on.
TableReady ==
    [status |-> "ACTIVE", pc |-> "idle", descr |-> "none", creates |-> 0,
     waited |-> FALSE, result |-> "none", at |-> "none", runs |-> 0]

\* No caller has a call in flight.
NoCallers == [pc |-> <<>>, call |-> <<>>, res |-> <<>>, n |-> 0, log |-> <<>>]

IdleTrav ==
    [st |-> "idle", email |-> <<>>, limit |-> 0, token |-> Nil,
     got |-> <<>>, calls |-> 0, clean |-> TRUE, before |-> {}]

\* lastPut after a successful Put of e at key
Remember(key, e) ==
    [k \in DOMAIN lastPut \cup {key} |-> IF k = key THEN e ELSE lastPut[k]]

\* A write into the partition the pagination loop reads, during the loop or
\* after it, ends the loop's claim to have read the partition as it is.
Disturb(pk) ==
    IF trav.st # "idle" /\ NewUserPK(trav.email) = pk
    THEN [trav EXCEPT !.clean = FALSE]
    ELSE trav

-----------------------------------------------------------------------------
(* Entity repositories.  v is the snapshot of the access layer, mv the     *)
(* snapshot of package models, t the table.                                *)

\* A slip in the envelope of a user: the tag of an order.
UserItem_TaggedOrder(u) ==
    [PK |-> NewUserPK(u.Email), SK |-> NewUserSK(u.Email),
     EntityType |-> EntityOrder, Data |-> u]

UserItem(u) ==
    [PK |-> NewUserPK(u.Email), SK |-> NewUserSK(u.Email),
     EntityType |-> EntityUser, Data |-> u]

\* A slip in the key of an order: the sort key built from the user email.
OrderItem_KeyFromEmail(o) ==
    [PK |-> NewUserPK(o.UserEmail), SK |-> NewOrderSK(o.UserEmail),
     EntityType |-> EntityOrder, Data |-> o]

OrderItem(o) ==
    [PK |-> NewUserPK(o.UserEmail), SK |-> NewOrderSK(o.OrderID),
     EntityType |-> EntityOrder, Data |-> o]

ProductItem(p) ==
    [PK |-> ProductPK, SK |-> ProductSK(p.ProductID),
     EntityType |-> EntityProduct, Data |-> p]

\* UserRepository.Put (Store.PutUser in main.go): only package repository
\* validates before it builds the item.
UserRepositoryPut(v, mv, t, u, fail) ==
    IF v = "repository" /\ ~UserValidate(mv, u)
    THEN [err |-> ErrValidation, table |-> t, called |-> FALSE]
    ELSE LET r == PutItem(t, MarshalItem(UserItem(u), MarshalUser(u)), fail)
         IN  [err |-> r.err, table |-> r.table, called |-> TRUE]

\* UserRepository.Get (Store.GetUser in main.go)
UserRepositoryGet(v, mv, t, email, fail) ==
    IF v = "main"
    THEN LET r == MainGetItem(t, NewUserPK(email), NewUserSK(email), fail)
         IN  IF r.err # NoErr THEN [err |-> r.err, out |-> Nil]
             ELSE IF r.out = Nil THEN [err |-> NoErr, out |-> Nil]
             ELSE [err |-> NoErr, out |-> UnmarshalDataUser(r.out.data.M)]
    ELSE LET r == GetItem(mv, EntityUser, t, NewUserPK(email), NewUserSK(email), fail)
         IN  IF r.err # NoErr THEN [err |-> r.err, out |-> Nil]
             ELSE [err |-> NoErr, out |-> r.out.Data]

\* OrderRepository.Put (Store.PutOrder in main.go)
OrderRepositoryPut(v, mv, t, o, fail) ==
    IF v = "repository" /\ ~OrderValidate(mv, o)
    THEN [err |-> ErrValidation, table |-> t, called |-> FALSE]
    ELSE LET r == PutItem(t, MarshalItem(OrderItem(o), MarshalOrder(o)), fail)
         IN  [err |-> r.err, table |-> r.table, called |-> TRUE]

\* Store.GetUserOrders of main.go: the orders out of UnmarshalData.
MainOrdersPage(r) ==
    [err   |-> r.err,
     Items |-> r.Items,
     page  |-> [i \in 1..Len(r.Items) |-> UnmarshalDataOrder(r.Items[i].data.M)],
     NextPageToken |-> Nil,
     lek   |-> r.lek]

\* A slip in the loop over result.Items: every entry of the page filled from
\* the last item, as when the loop keeps the address of its variable.
OrdersPage_LastOfPage(r) ==
    [err   |-> r.err,
     Items |-> r.Items,
     page  |-> [i \in 1..Len(r.Items) |-> r.Items[Len(r.Items)].Data],
     NextPageToken |-> r.NextPageToken,
     lek   |-> r.lek]

\* The OrdersPage (ProductsPage) a repository makes of a QueryResult.
OrdersPage(r) ==
    [err   |-> r.err,
     Items |-> r.Items,
     page  |-> [i \in 1..Len(r.Items) |-> r.Items[i].Data],
     NextPageToken |-> r.NextPageToken,
     lek   |-> r.lek]

\* A slip in GetUserOrders: the partition key built from an empty email.
GetUserOrders_AnyUser(v, mv, t, userEmail, opts, fail) ==
    OrdersPage(Query(mv, EntityOrder, t, NewUserPK(<<>>), S_ORDER, opts, fail))

\* OrderRepository.GetUserOrders (Store.GetUserOrders in main.go, which
\* takes no options)
GetUserOrders(v, mv, t, userEmail, opts, fail) ==
    IF v = "main"
    THEN MainOrdersPage(MainQuery(t, NewUserPK(userEmail), S_ORDER, fail))
    ELSE OrdersPage(Query(mv, EntityOrder, t, NewUserPK(userEmail), S_ORDER, opts, fail))

\* ProductRepository.Put
ProductRepositoryPut(v, mv, t, p, fail) ==
    IF ~ProductValidate(mv, p)
    THEN [err |-> ErrValidation, table |-> t, called |-> FALSE]
    ELSE LET r == PutItem(t, MarshalItem(ProductItem(p), MarshalProduct(mv, p)), fail)
         IN  [err |-> r.err, table |-> r.table, called |-> TRUE]

\* ProductRepository.Get
ProductRepositoryGet(v, mv, t, productID, fail) ==
    LET r == GetItem(mv, EntityProduct, t, ProductPK, ProductSK(productID), fail)
    IN  IF r.err # NoErr THEN [err |-> r.err, out |-> Nil]
        ELSE [err |-> NoErr, out |-> r.out.Data]

\* ProductRepository.All
ProductRepositoryAll(v, mv, t, opts, fail) ==
    OrdersPage(Query(mv, EntityProduct, t, ProductPK, S_PRODUCT, opts, fail))

-----------------------------------------------------------------------------
(* Actions: one per repository call.                                       *)

\* What a Put leaves behind: r is the repository's answer.
PutDone(op, pk, sk, e, r) ==
    /\ table' = r.table
    /\ last' = PutCall(op, pk, sk, e, r.err, r.called)
    /\ lastPut' = IF r.err = NoErr THEN Remember(<<pk, sk>>, e) ELSE lastPut
    /\ trav' = IF r.err = NoErr THEN Disturb(pk) ELSE trav
    /\ UNCHANGED <<variant, models>>

\* What a Get leaves behind.
GetDone(op, pk, sk, r) ==
    /\ last' = GetCall(op, pk, sk, r.err, r.out)
    /\ UNCHANGED <<variant, models, table, lastPut, trav>>

\* What a List leaves behind.
ListDone(op, pk, sk, opts, r) ==
    /\ last' = ListCall(op, pk, sk, opts, r)
    /\ UNCHANGED <<variant, models, table, lastPut, trav>>

UserPut(u, fail) ==
    PutDone("UserPut", NewUserPK(u.Email), NewUserSK(u.Email), u,
            UserRepositoryPut(variant, models, table, u, fail))

UserGet(email, fail) ==
    GetDone("UserGet", NewUserPK(email), NewUserSK(email),
            UserRepositoryGet(variant, models, table, email, fail))

OrderPut(o, fail) ==
    PutDone("OrderPut", NewUserPK(o.UserEmail), NewOrderSK(o.OrderID), o,
            OrderRepositoryPut(variant, models, table, o, fail))

OrderList(userEmail, opts, fail) ==
    /\ variant = "main" => opts = Nil
    /\ ListDone("GetUserOrders", NewUserPK(userEmail), S_ORDER, opts,
                GetUserOrders(variant, models, table, userEmail, opts, fail))

ProductPut(p, fail) ==
    /\ variant = "repository"
    /\ PutDone("ProductPut", ProductPK, ProductSK(p.ProductID), p,
               ProductRepositoryPut(variant, models, table, p, fail))

ProductGet(productID, fail) ==
    /\ variant = "repository"
    /\ GetDone("ProductGet", ProductPK, ProductSK(productID),
               ProductRepositoryGet(variant, models, table, productID, fail))

ProductAll(opts, fail) ==
    /\ variant = "repository"
    /\ ListDone("ProductAll", ProductPK, S_PRODUCT, opts,
                ProductRepositoryAll(variant, models, table, opts, fail))

-----------------------------------------------------------------------------
(* The pagination loop of main: call GetUserOrders with the previous       *)
(* page's token until a page comes back without one.                       *)

\* The sort keys of the orders of a user in table t.
OrderKeysOf(t, email) ==
    {av.SK.S : av \in {i \in t : i.PK.S = NewUserPK(email) /\ BeginsWith(i.SK.S, S_ORDER)}}

TravStart(email, limit) ==
    /\ trav.st = "idle"
    /\ variant # "main"
    /\ trav' = [IdleTrav EXCEPT !.st = "run", !.email = email, !.limit = limit,
                                !.before = OrderKeysOf(table, email)]
    /\ UNCHANGED <<variant, models, table, last, lastPut>>

\* A slip in the loop: "pageToken = page.NextPageToken" done for the first
\* page only.
TravAfter_FirstTokenKept(tr, r) ==
    IF r.err # NoErr
    THEN [tr EXCEPT !.st = "failed", !.calls = @ + 1]
    ELSE [tr EXCEPT !.st    = IF r.NextPageToken = Nil THEN "done" ELSE "run",
                    !.token = IF tr.token = Nil THEN r.NextPageToken ELSE tr.token,
                    !.got   = @ \o r.page,
                    !.calls = @ + 1]

\* The loop after a page: stop on an error, stop when the page has no
\* token, else go on from the token.
TravAfter(tr, r) ==
    IF r.err # NoErr
    THEN [tr EXCEPT !.st = "failed", !.calls = @ + 1]
    ELSE [tr EXCEPT !.st    = IF r.NextPageToken = Nil THEN "done" ELSE "run",
                    !.token = r.NextPageToken,
                    !.got   = @ \o r.page,
                    !.calls = @ + 1]

TravPage(opts, r) ==
    /\ last' = ListCall("GetUserOrders", NewUserPK(trav.email), S_ORDER, opts, r)
    /\ trav' = TravAfter(trav, r)
    /\ UNCHANGED <<variant, models, table, lastPut>>

TravCall(opts, fail) ==
    TravPage(opts, GetUserOrders(variant, models, table, trav.email, opts, fail))

TravStep(fail) ==
    /\ trav.st = "run"
    /\ TravCall([Limit |-> trav.limit, PageToken |-> trav.token], fail)

-----------------------------------------------------------------------------
(* Inputs.                                                                 *)

\* "a@b.c", "b"
E_A == <<97, 64, 98, 46, 99>>
E_B == <<98>>

\* "1", "2", "10", "3"
ID_1 == <<49>>
ID_2 == <<50>>
ID_10 == <<49, 48>>
ID_3 == <<51>>

\* time.Now()
T_NOW == [sec |-> 1, nsec |-> 7, mono |-> TRUE]

Emails == {<<>>, E_A}

Users == [Email : Emails, Name : {"", "n"}, CreatedAt : {ZeroTime, T_NOW}]

Orders ==
    [OrderID : {<<>>, ID_1}, UserEmail : Emails, Status : {"PENDING"},
     Total : {1}, Products : {<<>>, <<"p">>}, CreatedAt : {T_NOW}]

\* Product has no CreatedAt field in the "manual" snapshot.
ProductsOf(mv) ==
    [ProductID : {<<>>, ID_1}, Category : {"c"}, Name : {"n"},
     Price : {0, 1}, Stock : {-1, 0},
     CreatedAt : IF mv = "manual" THEN {ZeroTime} ELSE {T_NOW}]

ProductIDs == {<<>>, ID_1}

\* Options of the calls of Spec; SpecPage goes through QueryOptions.
SomeOptions == {Nil, [Limit |-> 1, PageToken |-> Nil]}

\* Page tokens a caller may pass: of an order that may exist, of a key
\* between orders, of the profile item, and of another partition.
PageTokens ==
    {[PK |-> NewUserPK(E_A), SK |-> NewOrderSK(ID_1)],
     [PK |-> NewUserPK(E_A), SK |-> NewOrderSK(ID_10)],
     [PK |-> NewUserPK(E_A), SK |-> NewUserSK(E_A)],
     [PK |-> NewUserPK(E_B), SK |-> NewOrderSK(ID_1)]}

Limits == (-1)..MaxLimit

QueryOptions == {Nil} \cup [Limit : Limits, PageToken : {Nil} \cup PageTokens]

\* Orders of the pagination runs: one shape, one or three product lines.
PageOrdersOf(e, ids) ==
    [OrderID : ids, UserEmail : {e}, Status : {"pending"},
     Total : {1}, Products : {<<"p">>, <<"p", "q", "r">>}, CreatedAt : {T_NOW}]

PageOrders == PageOrdersOf(E_A, {ID_1, ID_10, ID_2}) \cup PageOrdersOf(E_B, {ID_1})

TravOrders == PageOrdersOf(E_A, {ID_1, ID_10, ID_2})

PageUsers == [Email : {E_A}, Name : {"n"}, CreatedAt : {T_NOW}]

-----------------------------------------------------------------------------
(* Specifications.                                                         *)

Builds ==
    {<<"main", "manual">>, <<"datastore", "manual">>,
     <<"repository", "manual">>, <<"repository", "tags">>}

PageBuilds == {<<"datastore", "manual">>, <<"repository", "manual">>}

Init ==
    /\ \E b \in Builds : variant = b[1] /\ models = b[2]
    /\ table = {}
    /\ last = NoCall
    /\ lastPut = [k \in {} |-> Nil]
    /\ trav = IdleTrav
    /\ ops = 0
    /\ ddl = TableReady
    /\ conc = NoCallers

\* A Put counts against the bound of the behaviour; a read does not.
Uncounted == UNCHANGED <<ops, conc, ddl>>

Counted == ops' = ops + 1 /\ UNCHANGED <<conc, ddl>>

Next ==
    \/ ops < MaxOps /\ Counted /\ \E u \in Users, fail \in BOOLEAN : UserPut(u, fail)
    \/ ops < MaxOps /\ Counted /\ \E o \in Orders, fail \in BOOLEAN : OrderPut(o, fail)
    \/ ops < MaxOps /\ Counted
          /\ \E p \in ProductsOf(models), fail \in BOOLEAN : ProductPut(p, fail)
    \/ Uncounted /\ \E e \in Emails, fail \in BOOLEAN : UserGet(e, fail)
    \/ Uncounted /\ \E id \in ProductIDs, fail \in BOOLEAN : ProductGet(id, fail)
    \/ Uncounted
          /\ \E e \in Emails, opts \in SomeOptions, fail \in BOOLEAN : OrderList(e, opts, fail)
    \/ Uncounted /\ \E opts \in SomeOptions, fail \in BOOLEAN : ProductAll(opts, fail)

Spec == Init /\ [][Next]_vars

\* Single pages: the orders of one user, listed with every option.  The
\* table is bounded by the keys of PageOrders and PageUsers.
InitPage ==
    /\ \E b \in PageBuilds : variant = b[1] /\ models = b[2]
    /\ table = {}
    /\ last = NoCall
    /\ lastPut = [k \in {} |-> Nil]
    /\ trav = IdleTrav
    /\ ops = 0
    /\ ddl = TableReady
    /\ conc = NoCallers

NextPage ==
    \/ Uncounted /\ \E o \in PageOrders : OrderPut(o, FALSE)
    \/ Uncounted /\ \E u \in PageUsers : UserPut(u, FALSE)
    \/ Uncounted /\ \E opts \in QueryOptions : OrderList(E_A, opts, FALSE)

SpecPage == InitPage /\ [][NextPage]_vars

\* The pagination loop, with Puts going on beside it.
NextTrav ==
    \/ Uncounted /\ \E o \in TravOrders : OrderPut(o, FALSE)
    \/ Uncounted /\ \E l \in 1..MaxLimit : TravStart(E_A, l)
    \/ Uncounted /\ \E fail \in BOOLEAN : TravStep(fail)

SpecTrav == InitPage /\ [][NextTrav]_vars

\* Users of the runs that look for lost items: one profile, two names.
KeepUsers == [Email : {E_A}, Name : {"n", "m"}, CreatedAt : {T_NOW}]

\* Orders of the same runs: three ids, one product line each.
KeepOrders == {o \in TravOrders : Len(o.Products) = 1}

\* Puts, Gets and pagination loops in any order.
NextKeep ==
    \/ Uncounted /\ \E o \in KeepOrders, fail \in BOOLEAN : OrderPut(o, fail)
    \/ Uncounted /\ \E u \in KeepUsers, fail \in BOOLEAN : UserPut(u, fail)
    \/ Uncounted /\ \E fail \in BOOLEAN : UserGet(E_A, fail)
    \/ Uncounted /\ \E l \in 1..MaxLimit : TravStart(E_A, l)
    \/ Uncounted /\ \E fail \in BOOLEAN : TravStep(fail)

SpecKeep == InitPage /\ [][NextKeep]_vars

\* Orders of the runs that count the calls of the loop: four ids.
LoopOrders == PageOrdersOf(E_A, {ID_1, ID_10, ID_2, ID_3})

\* One round of the loop of main.
LoopStep == Uncounted /\ \E fail \in BOOLEAN : TravStep(fail)

\* The orders are written first; then the loop runs with no writer beside it.
NextLoop ==
    \/ Uncounted /\ trav.st = "idle" /\ \E o \in LoopOrders : OrderPut(o, FALSE)
    \/ Uncounted /\ \E l \in 1..MaxLimit : TravStart(E_A, l)
    \/ LoopStep

\* main goes round its loop as long as it has a token: weak fairness of
\* LoopStep, whose enabling condition is the loop's own, trav.st = "run"
\* (a round always adds one to trav.calls).
LoopGoesOn == []<>(trav.st # "run") \/ []<><<LoopStep>>_vars

SpecLoop == InitPage /\ [][NextLoop]_vars /\ LoopGoesOn

-----------------------------------------------------------------------------
(* The key functions on their own, applied to one identity after another.  *)

\* "", "#", "ALL", "1"
IdStrings == {<<>>, <<35>>, <<65, 76, 76>>, ID_1}

\* What identifies an entity: a user's email, an order's user email and
\* order ID, a product's ID.
UserIds == [kind : {EntityUser}, email : IdStrings]

OrderIds == [kind : {EntityOrder}, email : IdStrings, id : IdStrings]

ProductIds == [kind : {EntityProduct}, id : IdStrings]

\* The key pair the repositories give an identity.
KeyPairFor(x) ==
    CASE x.kind = EntityUser    -> <<NewUserPK(x.email), NewUserSK(x.email)>>
      [] x.kind = EntityOrder   -> <<NewUserPK(x.email), NewOrderSK(x.id)>>
      [] x.kind = EntityProduct -> <<ProductPK, ProductSK(x.id)>>

\* The key pair of an identity is built; the one built before is kept.
KeyFor(x) ==
    /\ last' = [NoCall EXCEPT
                   !.op = "KeyFor", !.in = x,
                   !.pk = KeyPairFor(x)[1], !.sk = KeyPairFor(x)[2],
                   !.prev = IF last.op = "KeyFor"
                            THEN [in |-> last.in, pk |-> last.pk, sk |-> last.sk]
                            ELSE Nil]
    /\ UNCHANGED <<variant, models, table, lastPut, trav>>

NextKeys ==
    \/ Uncounted /\ \E x \in UserIds : KeyFor(x)
    \/ Uncounted /\ \E x \in OrderIds : KeyFor(x)
    \/ Uncounted /\ \E x \in ProductIds : KeyFor(x)

SpecKeys == Init /\ [][NextKeys]_vars

-----------------------------------------------------------------------------
(* EnsureTableExists against a store that creates and deletes tables in    *)
(* the background: DescribeTable, CreateTable and the waiter are calls to  *)
(* the store, and the table's status moves on between them.  main.go has   *)
(* its own ensureTableExists; the packages use db.EnsureTableExists.       *)

MaxRuns == 2

\* What DescribeTable can answer: the description of a table in any status,
\* ResourceNotFoundException when there is none, or another error.
DescribeOutcomes(status) ==
    (IF status = "absent" THEN {"notfound"} ELSE {"ok"}) \cup {"other"}

\* A call has returned: its result and the status of the table then.
Returned(d, result) == [d EXCEPT !.pc = "returned", !.result = result, !.at = d.status]

\* db.EnsureTableExists after DescribeTable: nil when it gave no error,
\* CreateTable on ResourceNotFoundException, the error otherwise.
DbAfterDescribe(d, out) ==
    CASE out = "ok"       -> Returned(d, "nil")
      [] out = "notfound" -> [d EXCEPT !.pc = "create"]
      [] OTHER            -> Returned(d, "err")

\* ensureTableExists of main.go after DescribeTable: nil when it gave no
\* error, CreateTable on any error.
MainAfterDescribe(d, out) ==
    IF out = "ok" THEN Returned(d, "nil") ELSE [d EXCEPT !.pc = "create"]

\* A call of EnsureTableExists begins: DescribeTable.
EnsureDescribe(out) ==
    /\ ddl.pc \in {"idle", "returned"}
    /\ ddl.runs < MaxRuns
    /\ out \in DescribeOutcomes(ddl.status)
    /\ ddl' = IF variant = "main"
              THEN MainAfterDescribe([ddl EXCEPT !.descr = out, !.creates = 0,
                                                 !.waited = FALSE, !.result = "none",
                                                 !.at = "none", !.runs = @ + 1], out)
              ELSE DbAfterDescribe([ddl EXCEPT !.descr = out, !.creates = 0,
                                               !.waited = FALSE, !.result = "none",
                                               !.at = "none", !.runs = @ + 1], out)
    /\ UNCHANGED <<variant, models, table, last, lastPut, trav, ops, conc>>

\* CreateTable succeeds when there is no table of the name and the call
\* gets through; the table is then being created.
CreateSucceeds(d, fail) == d.status = "absent" /\ ~fail

AfterCreateCall(d, fail) ==
    [d EXCEPT !.creates = @ + 1,
              !.status = IF CreateSucceeds(d, fail) THEN "CREATING" ELSE @]

\* db.EnsureTableExists after CreateTable: the error, or on to the waiter.
DbAfterCreate(d, ok) ==
    IF ok THEN [d EXCEPT !.pc = "wait"] ELSE Returned(d, "err")

\* ensureTableExists of main.go after CreateTable: "return err".
MainAfterCreate(d, ok) == Returned(d, IF ok THEN "nil" ELSE "err")

EnsureCreate(fail) ==
    /\ ddl.pc = "create"
    /\ ddl' = IF variant = "main"
              THEN MainAfterCreate(AfterCreateCall(ddl, fail), CreateSucceeds(ddl, fail))
              ELSE DbAfterCreate(AfterCreateCall(ddl, fail), CreateSucceeds(ddl, fail))
    /\ UNCHANGED <<variant, models, table, last, lastPut, trav, ops, conc>>

\* waiter.Wait: nil once the table is ACTIVE, an error when two minutes
\* are over.
EnsureWait(timeout) ==
    /\ ddl.pc = "wait"
    /\ timeout \/ ddl.status = "ACTIVE"
    /\ ddl' = IF timeout
              THEN Returned(ddl, "err")
              ELSE Returned([ddl EXCEPT !.waited = TRUE], "nil")
    /\ UNCHANGED <<variant, models, table, last, lastPut, trav, ops, conc>>

\* The store finishes creating or deleting the table.
StoreSettles ==
    /\ ddl.status \in {"CREATING", "DELETING"}
    /\ ddl' = [ddl EXCEPT !.status = IF @ = "CREATING" THEN "ACTIVE" ELSE "absent"]
    /\ UNCHANGED <<variant, models, table, last, lastPut, trav, ops, conc>>

\* DeleteTable of SetupTestTable and CleanupTestTable, between calls of
\* EnsureTableExists: the store starts deleting the table.
DeleteTable ==
    /\ variant # "main"
    /\ ddl.pc \in {"idle", "returned"}
    /\ ddl.status = "ACTIVE"
    /\ ddl' = [ddl EXCEPT !.status = "DELETING"]
    /\ table' = {}
    /\ UNCHANGED <<variant, models, last, lastPut, trav, ops, conc>>

\* Before the first call the table is there or not.
InitTable ==
    /\ \E b \in Builds : variant = b[1] /\ models = b[2]
    /\ table = {}
    /\ last = NoCall
    /\ lastPut = [k \in {} |-> Nil]
    /\ trav = IdleTrav
    /\ ops = 0
    /\ conc = NoCallers
    /\ \E st \in {"absent", "ACTIVE"} : ddl = [TableReady EXCEPT !.status = st]

NextTable ==
    \/ \E out \in {"ok", "notfound", "other"} : EnsureDescribe(out)
    \/ \E fail \in BOOLEAN : EnsureCreate(fail)
    \/ \E timeout \in BOOLEAN : EnsureWait(timeout)
    \/ StoreSettles
    \/ DeleteTable

SpecTable == InitTable /\ [][NextTable]_vars

-----------------------------------------------------------------------------
(* sanitizeTableName of package testutil, on strings of runes.             *)

MaxNameLen == 3

\* 'a'..'z', 'A'..'Z', '0'..'9'
IsAlnum(r) ==
    \/ (r >= 97 /\ r <= 122)
    \/ (r >= 65 /\ r <= 90)
    \/ (r >= 48 /\ r <= 57)

\* The runes strings.Map keeps: letters, digits, '_', '-', '.'.
IsNameRune(r) == IsAlnum(r) \/ r = 95 \/ r = 45 \/ r = 46

\* "t_" and "_table"
S_T == <<116, 95>>
S_TABLE == <<95, 116, 97, 98, 108, 101>>

\* strings.Map: every other rune becomes '_'.
MapRunes(name) == [i \in 1..Len(name) |-> IF IsNameRune(name[i]) THEN name[i] ELSE 95]

\* "t_" put in front of a non-empty name that does not start with a letter
\* or a digit.
WithStart(name) ==
    IF Len(name) > 0 /\ ~IsAlnum(name[1]) THEN S_T \o name ELSE name

\* "_table" put behind a name shorter than 3.
WithMinLen(name) == IF Len(name) < 3 THEN name \o S_TABLE ELSE name

sanitizeTableName(name) == WithMinLen(WithStart(MapRunes(name)))

\* 'a', '0', '_', '.', 'e' with an acute accent
NameRunes == {97, 48, 95, 46, 233}

Names == UNION {[1..n -> NameRunes] : n \in 0..MaxNameLen}

\* A name is sanitized.
Sanitize(name) ==
    /\ last' = [NoCall EXCEPT !.op = "sanitizeTableName", !.in = name,
                              !.out = sanitizeTableName(name)]
    /\ UNCHANGED <<variant, models, table, lastPut, trav>>

NextName == Uncounted /\ \E name \in Names : Sanitize(name)

SpecName == Init /\ [][NextName]_vars

-----------------------------------------------------------------------------
(* Several callers on one repository.  A call is the caller's own stack    *)
(* frame: the entity it was given, the item and the attribute map it       *)
(* builds, the answer of the client.  Store holds the client and the table *)
(* name and nothing else; the table is all the callers share, and the      *)
(* client's PutItem, GetItem and Query each act on it in one step.         *)

MaxCalls == 4

\* Two callers, the fewest that can interleave.
Procs == {"a", "b"}

\* Each caller idle, no call made by any of them, no write logged.
IdleCallers ==
    [pc   |-> [p \in Procs |-> "idle"],
     call |-> [p \in Procs |-> NoCall],
     res  |-> [p \in Procs |-> NoCall],
     n    |-> 0,
     log  |-> <<>>]

\* The frame of a Put up to the client call: validation, the item, and
\* "av, err := attributevalue.MarshalMap(item)" in the call's own variable.
PutFrame(v, mv, op, e) ==
    IF op = "UserPut"
    THEN [NoCall EXCEPT !.op = op, !.in = e,
              !.pk = NewUserPK(e.Email), !.sk = NewUserSK(e.Email),
              !.err = IF v = "repository" /\ ~UserValidate(mv, e)
                      THEN ErrValidation ELSE NoErr,
              !.out = MarshalItem(UserItem(e), MarshalUser(e))]
    ELSE [NoCall EXCEPT !.op = op, !.in = e,
              !.pk = NewUserPK(e.UserEmail), !.sk = NewOrderSK(e.OrderID),
              !.err = IF v = "repository" /\ ~OrderValidate(mv, e)
                      THEN ErrValidation ELSE NoErr,
              !.out = MarshalItem(OrderItem(e), MarshalOrder(e))]

\* The frame of a Get or of a List up to the client call: the key.
ReadFrame(op, email) ==
    [NoCall EXCEPT !.op = op, !.in = email, !.pk = NewUserPK(email),
                   !.sk = IF op = "UserGet" THEN NewUserSK(email) ELSE S_ORDER]

\* A slip in PutItem: the attribute map kept in one place for all callers,
\* so that a call sends what the first caller has marshalled.
Sent_SharedMap(c, p) ==
    IF c.pc["a"] = "staged" /\ IsPutOp(c.call["a"].op)
    THEN c.call["a"].out
    ELSE c.call[p].out

\* "Item: av": the attribute map a call hands to the client is its own.
Sent(c, p) == c.call[p].out

\* A caller enters Put.
ConcBegin(p, f) ==
    /\ conc.pc[p] = "idle"
    /\ conc.n < MaxCalls
    /\ conc' = [conc EXCEPT !.pc[p] = IF f.err = NoErr THEN "staged" ELSE "answered",
                            !.call[p] = f,
                            !.res[p] = [NoCall EXCEPT !.op = f.op, !.err = f.err],
                            !.n = @ + 1]
    /\ UNCHANGED <<variant, models, table, last, lastPut, trav, ops, ddl>>

ConcBeginPut(p, op, e) == ConcBegin(p, PutFrame(variant, models, op, e))

ConcBeginRead(p, op, email) == ConcBegin(p, ReadFrame(op, email))

\* What the client's answer to a Put leaves behind.
ConcPutAnswer(p, av, r) ==
    /\ table' = r.table
    /\ conc' = [conc EXCEPT
           !.pc[p] = "answered",
           !.res[p] = [NoCall EXCEPT !.op = conc.call[p].op, !.err = r.err],
           !.log = IF r.err = NoErr
                   THEN Append(@, [op |-> conc.call[p].op,
                                   in |-> conc.call[p].in, av |-> av])
                   ELSE @]

\* What the client's answer to a Get leaves behind.
ConcGetAnswer(p, r) ==
    /\ table' = table
    /\ conc' = [conc EXCEPT
           !.pc[p] = "answered",
           !.res[p] = [NoCall EXCEPT !.op = conc.call[p].op, !.in = conc.call[p].in,
                                     !.err = r.err, !.out = r.out]]

\* What the client's answer to a Query leaves behind.
ConcListAnswer(p, r) ==
    /\ table' = table
    /\ conc' = [conc EXCEPT
           !.pc[p] = "answered",
           !.res[p] = [NoCall EXCEPT !.op = conc.call[p].op, !.in = conc.call[p].in,
                                     !.err = r.err, !.page = r.page]]

\* The client call of the caller's frame, and what the frame makes of the
\* answer.
ConcStore(p, fail) ==
    /\ conc.pc[p] = "staged"
    /\ CASE IsPutOp(conc.call[p].op) ->
               ConcPutAnswer(p, Sent(conc, p), PutItem(table, Sent(conc, p), fail))
         [] conc.call[p].op = "UserGet" ->
               ConcGetAnswer(p, UserRepositoryGet(variant, models, table,
                                                  conc.call[p].in, fail))
         [] OTHER ->
               ConcListAnswer(p, GetUserOrders(variant, models, table,
                                               conc.call[p].in, Nil, fail))
    /\ UNCHANGED <<variant, models, last, lastPut, trav, ops, ddl>>

\* The call returns to its caller.
ConcReturn(p) ==
    /\ conc.pc[p] = "answered"
    /\ conc' = [conc EXCEPT !.pc[p] = "idle", !.call[p] = NoCall, !.res[p] = NoCall]
    /\ UNCHANGED <<variant, models, table, last, lastPut, trav, ops, ddl>>

ConcUsers == [Email : {E_A}, Name : {"n", "m"}, CreatedAt : {T_NOW}]

ConcOrders == {o \in PageOrdersOf(E_A, {ID_1}) : Len(o.Products) = 1}

InitConc ==
    /\ \E b \in PageBuilds : variant = b[1] /\ models = b[2]
    /\ table = {}
    /\ last = NoCall
    /\ lastPut = [k \in {} |-> Nil]
    /\ trav = IdleTrav
    /\ ops = 0
    /\ ddl = TableReady
    /\ conc = IdleCallers

NextConc ==
    \/ \E p \in Procs, u \in ConcUsers : ConcBeginPut(p, "UserPut", u)
    \/ \E p \in Procs, o \in ConcOrders : ConcBeginPut(p, "OrderPut", o)
    \/ \E p \in Procs : ConcBeginRead(p, "UserGet", E_A)
    \/ \E p \in Procs : ConcBeginRead(p, "GetUserOrders", E_A)
    \/ \E p \in Procs, fail \in BOOLEAN : ConcStore(p, fail)
    \/ \E p \in Procs : ConcReturn(p)

SpecConc == InitConc /\ [][NextConc]_vars

-----------------------------------------------------------------------------
(* Properties.                                                             *)

\* The typed layers, whose repositories the properties are about.
Typed == variant \in {"datastore", "repository"}

IsPut == last.op \in {"UserPut", "OrderPut", "ProductPut"}

IsGet == last.op \in {"UserGet", "ProductGet"}

IsList == last.op \in {"GetUserOrders", "ProductAll"}

\* The store call of the last operation came back without an error.
StoreAnswered == last.err.kind # "store"

LastKey == <<last.pk, last.sk>>

Nanos(t) == t.sec * 1000000000 + t.nsec

\* Two times at most one second apart.
WithinSecond(a, b) ==
    /\ Nanos(a) - Nanos(b) <= 1000000000
    /\ Nanos(b) - Nanos(a) <= 1000000000

\* Equal field for field, timestamps within one second.
SameUser(a, b) ==
    /\ a.Email = b.Email
    /\ a.Name = b.Name
    /\ WithinSecond(a.CreatedAt, b.CreatedAt)

SameProduct(a, b) ==
    /\ a.ProductID = b.ProductID
    /\ a.Category = b.Category
    /\ a.Name = b.Name
    /\ a.Price = b.Price
    /\ a.Stock = b.Stock
    /\ WithinSecond(a.CreatedAt, b.CreatedAt)

\* C1. Round trip: when the latest successful Put at a key pair stored an
\* entity E that passes validation (User or Product), a Get of E's identity
\* whose store call is answered returns success and a payload equal to E
\* field for field, timestamps within one second.
C1_RoundTrip ==
    (Typed /\ IsGet /\ StoreAnswered /\ LastKey \in DOMAIN lastPut) =>
        LET e == lastPut[LastKey]
        IN  IF last.op = "UserGet"
            THEN UserValidate(models, e) =>
                    last.err = NoErr /\ last.out # Nil /\ SameUser(last.out, e)
            ELSE ProductValidate(models, e) =>
                    last.err = NoErr /\ last.out # Nil /\ SameProduct(last.out, e)

\* A Get has returned a valid user that was Put with a monotonic clock
\* reading, which the stored form does not keep.
C1_Witness ==
    /\ variant = "repository"
    /\ last.op = "UserGet" /\ last.err = NoErr
    /\ LastKey \in DOMAIN lastPut
    /\ UserValidate(models, lastPut[LastKey])
    /\ lastPut[LastKey].CreatedAt.mono
    /\ last.out # lastPut[LastKey]

\* C2. Not-found distinction: a Get of a key pair that was never written,
\* whose store call is answered, returns ErrNotFound and no entity; it never
\* returns a nil error with a nil entity.
C2_NotFound ==
    (IsGet /\ StoreAnswered /\ LastKey \notin DOMAIN lastPut) =>
        last.err = ErrNotFound /\ last.out = Nil

\* An entity misses a required field.
MissingField(op, e) ==
    CASE op = "UserPut"    -> e.Email = <<>> \/ e.Name = ""
      [] op = "OrderPut"   -> e.OrderID = <<>> \/ e.UserEmail = <<>> \/ Len(e.Products) = 0
      [] op = "ProductPut" -> e.ProductID = <<>> \/ e.Category = "" \/ e.Name = ""

\* C3. Validation gating: a repository Put of an entity that misses a
\* required field returns a validation error, issues no write call to the
\* store and leaves no item at the entity's key pair unless an earlier Put
\* wrote one.
C3_ValidationGating ==
    (Typed /\ IsPut /\ MissingField(last.op, last.in)) =>
        /\ last.err = ErrValidation
        /\ last.calls.put = 0
        /\ (\E i \in table : KeyOf(i) = LastKey) => LastKey \in DOMAIN lastPut

\* The attribute map a repository stores for entity e under operation op.
Stored(mv, op, e) ==
    CASE op = "UserPut"    -> MarshalItem(UserItem(e), MarshalUser(e))
      [] op = "OrderPut"   -> MarshalItem(OrderItem(e), MarshalOrder(e))
      [] op = "ProductPut" -> MarshalItem(ProductItem(e), MarshalProduct(mv, e))

\* The kind of entity a key pair addresses.
PutOpOf(key) ==
    IF key[1] = ProductPK THEN "ProductPut"
    ELSE IF BeginsWith(key[2], S_PROFILE) THEN "UserPut"
    ELSE "OrderPut"

\* C9. Key uniqueness and overwrite: the table holds at most one item per
\* key pair; the item at a key pair is, in full, the one of the latest
\* successful Put to that pair, and the table holds nothing else; a Get that
\* succeeds returns the payload of that Put.
C9_LastWriteWins ==
    /\ \A i, j \in table : KeyOf(i) = KeyOf(j) => i = j
    /\ \A i \in table : KeyOf(i) \in DOMAIN lastPut
    /\ \A k \in DOMAIN lastPut : Stored(models, PutOpOf(k), lastPut[k]) \in table
    /\ (Typed /\ IsGet /\ StoreAnswered /\ LastKey \in DOMAIN lastPut) =>
          /\ last.err = NoErr
          /\ last.out = UnmarshalItem(models,
                            IF last.op = "UserGet" THEN EntityUser ELSE EntityProduct,
                            Stored(models, PutOpOf(LastKey), lastPut[LastKey])).Data

\* A successful Put has replaced a different item at its key pair.
C9_Witness ==
    /\ Typed
    /\ IsPut /\ last.err = NoErr
    /\ last.prev # Nil
    /\ last.prev # Stored(models, last.op, last.in)
    /\ Stored(models, last.op, last.in) \in table

\* C10. Query selectivity and order: every item a List returns has the
\* queried partition key and a sort key that begins with the prefix, the
\* items are in ascending sort-key order, every item of GetUserOrders(e) is
\* an ORDER item of user e's partition and every item of All is a PRODUCT
\* item of the PRODUCT#ALL partition.
C10_Selective ==
    (Typed /\ IsList /\ last.err = NoErr) =>
        /\ \A i \in 1..Len(last.items) :
              /\ last.items[i].PK = last.pk
              /\ BeginsWith(last.items[i].SK, last.sk)
              /\ last.items[i].EntityType =
                    (IF last.op = "GetUserOrders" THEN EntityOrder ELSE EntityProduct)
              /\ last.op = "ProductAll" => last.items[i].PK = ProductPK
              /\ \E av \in table :
                    /\ KeyOf(av) = <<last.items[i].PK, last.items[i].SK>>
                    /\ last.items[i].Data = last.page[i]
        /\ \A i, j \in 1..Len(last.items) :
              i < j => StrLess(last.items[i].SK, last.items[j].SK)
        /\ Len(last.page) = Len(last.items)

\* GetUserOrders has returned the one order of a user while the table also
\* holds the user's profile item and an item of another partition.
C10_Witness ==
    /\ variant = "repository"
    /\ last.op = "GetUserOrders" /\ last.err = NoErr
    /\ Len(last.items) = 1
    /\ \E av \in table : av.PK.S = last.pk /\ av.entity_type.S = EntityUser
    /\ \E av \in table : av.PK.S # last.pk

-----------------------------------------------------------------------------
(* Properties of pages (SpecPage) and of the pagination loop (SpecTrav).   *)

\* The items of the table a Query for (pk, prefix) matches.
Matching(pk, prefix) ==
    {av \in table : av.PK.S = pk /\ BeginsWith(av.SK.S, prefix)}

HasToken == last.opts # Nil /\ last.opts.PageToken # Nil

\* The limit the last call asked for, 0 when it asked for none.
AskedLimit == IF last.opts # Nil /\ last.opts.Limit > 0 THEN last.opts.Limit ELSE 0

\* The matching items after the start position of the last call.
Remaining ==
    {av \in Matching(last.pk, last.sk) :
        HasToken => StrLess(last.opts.PageToken.SK, av.SK.S)}

\* The matching items beyond the page the last call returned.
Beyond ==
    {av \in Remaining :
        Len(last.items) > 0 => StrLess(last.items[Len(last.items)].SK, av.SK.S)}

\* The page is made of the smallest remaining items, none left out.
LeadingItems ==
    /\ \A i \in 1..Len(last.items) :
          \E av \in Remaining : KeyOf(av) = <<last.items[i].PK, last.items[i].SK>>
    /\ Cardinality(Remaining \ Beyond) = Len(last.items)

\* Size of the k smallest items of S.
SizeOfFirst(S, k) == SumSize(SortBySK(S), Min(k, Cardinality(S)))

ListedFine == Typed /\ IsList /\ last.err = NoErr

\* C5 as stated: the token is present exactly when a further matching item
\* exists beyond the returned page.
C5_TokenIffMore ==
    ListedFine => (last.token # Nil <=> Beyond # {})

\* C5, amended: the token is present exactly when the store returned a
\* LastEvaluatedKey; it is present whenever a further matching item exists,
\* and when none exists it is present only on a page that stopped at its
\* limit; a page fetched from a position with nothing after it is empty and
\* has no token.
C5_TokenWhenStopped ==
    ListedFine =>
        /\ last.token # Nil <=> last.lek # Nil
        /\ Beyond # {} => last.token # Nil
        /\ (last.token # Nil /\ Beyond = {}) =>
              AskedLimit > 0 /\ Len(last.items) = AskedLimit
        /\ Remaining = {} => last.items = <<>> /\ last.token = Nil

\* A page has stopped at its limit on the last matching item and carries a
\* token.
C5_Witness ==
    /\ ListedFine
    /\ last.token # Nil
    /\ Beyond = {}
    /\ Len(last.items) = 2

\* C6 as stated: with nil options GetUserOrders returns every order of the
\* user and no token.
C6_NilOptionsAll ==
    (ListedFine /\ last.opts = Nil) =>
        /\ Len(last.page) = Cardinality(Matching(last.pk, last.sk))
        /\ last.token = Nil

\* C6, amended: with nil options GetUserOrders returns one response of the
\* store: every order and no token when the user's orders fit in one
\* response, otherwise the leading orders and a token.
C6_NilOptionsOnePage ==
    (ListedFine /\ last.opts = Nil) =>
        LET all == Matching(last.pk, last.sk)
        IN  /\ LeadingItems
            /\ Len(last.page) = Len(last.items)
            /\ SizeOfFirst(all, Cardinality(all)) <= PageCap =>
                  Len(last.items) = Cardinality(all) /\ last.token = Nil
            /\ SizeOfFirst(all, Cardinality(all)) > PageCap =>
                  /\ 0 < Len(last.items)
                  /\ Len(last.items) < Cardinality(all)
                  /\ last.token # Nil

\* GetUserOrders with nil options has returned three orders and no token.
C6_Witness ==
    /\ ListedFine
    /\ last.opts = Nil
    /\ Len(last.page) = 3
    /\ last.token = Nil

\* C7 as stated: at most L items; exactly L and a token when more than L
\* remain; all of them and no token when fewer than L remain.
C7_PageSize ==
    (ListedFine /\ AskedLimit > 0) =>
        /\ Len(last.items) <= AskedLimit
        /\ Cardinality(Remaining) > AskedLimit =>
              Len(last.items) = AskedLimit /\ last.token # Nil
        /\ Cardinality(Remaining) < AskedLimit =>
              Len(last.items) = Cardinality(Remaining) /\ last.token = Nil

\* C7, amended: at most L items; when the first L remaining items (or all of
\* them, if fewer) fit in one response of the store: exactly L and a token
\* when more than L remain, all of them and no token when fewer than L
\* remain; when they do not fit, a shorter, non-empty page and a token.
C7_PageSizeWithinResponse ==
    (ListedFine /\ AskedLimit > 0) =>
        /\ Len(last.items) <= AskedLimit
        /\ LeadingItems
        /\ IF SizeOfFirst(Remaining, AskedLimit) <= PageCap
           THEN /\ Cardinality(Remaining) > AskedLimit =>
                      Len(last.items) = AskedLimit /\ last.token # Nil
                /\ Cardinality(Remaining) < AskedLimit =>
                      Len(last.items) = Cardinality(Remaining) /\ last.token = Nil
           ELSE /\ 0 < Len(last.items)
                /\ Len(last.items) < Min(AskedLimit, Cardinality(Remaining))
                /\ last.token # Nil

\* Three orders, limit 2: the page after the token of the second order holds
\* the remaining order and no token.
C7_Witness ==
    /\ ListedFine
    /\ AskedLimit = 2
    /\ Cardinality(Matching(last.pk, last.sk)) = 3
    /\ HasToken /\ last.opts.PageToken.SK = NewOrderSK(ID_10)
    /\ Len(last.items) = 1
    /\ last.token = Nil

\* C8. Resumption: a Query given a page token returns only items of the
\* queried partition whose sort key is greater than the token's, beginning
\* with the smallest such matching item when there is one; the item the
\* token refers to is not returned.
C8_Resumes ==
    (Typed /\ IsList /\ HasToken) =>
        /\ \A i \in 1..Len(last.items) :
              /\ last.items[i].PK = last.pk
              /\ StrLess(last.opts.PageToken.SK, last.items[i].SK)
              /\ last.items[i].SK # last.opts.PageToken.SK
        /\ (last.err = NoErr /\ Remaining # {}) =>
              /\ Len(last.items) >= 1
              /\ \A av \in Remaining : ~StrLess(av.SK.S, last.items[1].SK)
        /\ last.err # NoErr => last.items = <<>>

\* A Query without a limit has resumed after the token of a stored order and
\* returned the next order first.
C8_Witness ==
    /\ ListedFine /\ HasToken
    /\ AskedLimit = 0
    /\ last.opts.PageToken.SK = NewOrderSK(ID_1)
    /\ \E av \in table : KeyOf(av) = <<last.pk, NewOrderSK(ID_1)>>
    /\ Len(last.items) = 2
    /\ last.items[1].SK = NewOrderSK(ID_10)

\* C4. Pagination completeness: a loop over the pages of a user's N orders
\* with limit L, 0 < L < N, and no write into the partition meanwhile ends
\* with all N orders, each exactly once, in ascending sort-key order.
C4_Complete ==
    LET all == Matching(NewUserPK(trav.email), S_ORDER)
        n   == Cardinality(all)
    IN  (trav.st = "done" /\ trav.clean /\ 0 < trav.limit /\ trav.limit < n) =>
            /\ Len(trav.got) = n
            /\ \A av \in all : \E i \in 1..n : trav.got[i] = UnmarshalOrder(av.data.M)
            /\ \A i, j \in 1..n :
                  i < j => StrLess(NewOrderSK(trav.got[i].OrderID),
                                   NewOrderSK(trav.got[j].OrderID))

\* A loop with limit 2 over three orders has ended after two calls.
C4_Witness ==
    /\ trav.st = "done" /\ trav.clean
    /\ trav.limit = 2
    /\ Cardinality(Matching(NewUserPK(trav.email), S_ORDER)) = 3
    /\ trav.calls = 2
    /\ Len(trav.got) = 3

-----------------------------------------------------------------------------
(* Empty results and key templates (Spec).                                 *)

\* C11. Empty query result: a List whose store call is answered and whose
\* partition holds no item matching the prefix returns success, an empty
\* sequence and no token, never ErrNotFound.
C11_EmptyQuery ==
    (IsList /\ StoreAnswered /\ Matching(last.pk, last.sk) = {}) =>
        /\ last.err = NoErr
        /\ last.items = <<>>
        /\ last.page = <<>>
        /\ last.token = Nil

\* GetUserOrders has returned an empty page for a user who has a profile
\* item and no order.
C11_Witness ==
    /\ last.op = "GetUserOrders" /\ last.err = NoErr
    /\ \E av \in table : av.PK.S = last.pk
    /\ Matching(last.pk, last.sk) = {}
    /\ last.page = <<>>

\* The key pair the templates give an entity: "USER#"+email and
\* "PROFILE#"+email, "USER#"+userEmail and "ORDER#"+orderID, "PRODUCT#ALL"
\* and "PRODUCT#"+productID.
TemplateKey(op, e) ==
    CASE op = "UserPut" ->
            << <<85, 83, 69, 82, 35>> \o e.Email,
               <<80, 82, 79, 70, 73, 76, 69, 35>> \o e.Email >>
      [] op = "OrderPut" ->
            << <<85, 83, 69, 82, 35>> \o e.UserEmail,
               <<79, 82, 68, 69, 82, 35>> \o e.OrderID >>
      [] op = "ProductPut" ->
            << <<80, 82, 79, 68, 85, 67, 84, 35, 65, 76, 76>>,
               <<80, 82, 79, 68, 85, 67, 84, 35>> \o e.ProductID >>

\* The key pair the templates give the identity stored in an item.
TemplateKeyOfItem(av) ==
    CASE av.entity_type.S = EntityUser ->
            TemplateKey("UserPut", [Email |-> av.data.M.email.S])
      [] av.entity_type.S = EntityOrder ->
            TemplateKey("OrderPut", [UserEmail |-> av.data.M.user_email.S,
                                     OrderID   |-> av.data.M.order_id.S])
      [] av.entity_type.S = EntityProduct ->
            TemplateKey("ProductPut", [ProductID |-> av.data.M.product_id.S])

-----------------------------------------------------------------------------
(* Validation of orders and products, store errors (Spec).                 *)

\* An order misses its ID, its user email or its product list.
OrderIncomplete(o) ==
    o.OrderID = <<>> \/ o.UserEmail = <<>> \/ Len(o.Products) = 0

\* C13. OrderRepository.Put answers an order with an empty order ID, an
\* empty user email or an empty product list with a validation error and no
\* write; the table never holds such an order and GetUserOrders never
\* returns one.
C13_OrderRejected ==
    Typed =>
        /\ (last.op = "OrderPut" /\ OrderIncomplete(last.in)) =>
              last.err = ErrValidation /\ last.calls.put = 0
        /\ \A av \in table :
              av.entity_type.S = EntityOrder => ~OrderIncomplete(UnmarshalOrder(av.data.M))
        /\ (last.op = "GetUserOrders" /\ last.err = NoErr) =>
              \A i \in 1..Len(last.page) : ~OrderIncomplete(last.page[i])

\* C14. OrderRepository.Put takes every order with a non-empty order ID, a
\* user email, a non-empty status string, a positive total and at least one
\* product ID: it returns no validation error, and when the store call
\* succeeds the order is stored.
C14_OrderAccepted ==
    (/\ Typed
     /\ last.op = "OrderPut"
     /\ last.in.OrderID # <<>>
     /\ last.in.UserEmail # <<>>
     /\ last.in.Status # ""
     /\ last.in.Total > 0
     /\ Len(last.in.Products) >= 1) =>
        /\ last.err.kind # "validation"
        /\ last.calls.put = 1
        /\ last.err = NoErr => Stored(models, "OrderPut", last.in) \in table

\* A product has its identifying fields.
ProductIdentified(p) == p.ProductID # <<>> /\ p.Category # "" /\ p.Name # ""

\* C15. ProductRepository.Put answers a product whose price is not strictly
\* positive or whose stock is negative with a validation error and stores
\* nothing for it; a product with its identifying fields, price > 0 and
\* stock >= 0 (stock = 0 included) gets no validation error and is stored
\* when the store call succeeds; the table never holds a product with
\* price <= 0 or stock < 0.
C15_ProductValidation ==
    /\ (last.op = "ProductPut" /\ (last.in.Price <= 0 \/ last.in.Stock < 0)) =>
          /\ last.err = ErrValidation
          /\ last.calls.put = 0
          /\ Stored(models, "ProductPut", last.in) \notin table
    /\ (last.op = "ProductPut" /\ ProductIdentified(last.in)
          /\ last.in.Price > 0 /\ last.in.Stock >= 0) =>
          /\ last.err.kind # "validation"
          /\ last.calls.put = 1
          /\ last.err = NoErr => Stored(models, "ProductPut", last.in) \in table
    /\ \A av \in table :
          av.entity_type.S = EntityProduct =>
              av.data.M.price.N > 0 /\ av.data.M.stock.N >= 0

\* A product with stock 0 and a positive price has been stored.
C15_Witness ==
    /\ last.op = "ProductPut" /\ last.err = NoErr
    /\ last.in.Stock = 0 /\ last.in.Price > 0
    /\ Stored(models, "ProductPut", last.in) \in table

\* C16. An operation whose store call failed returns the store's error
\* wrapped with the operation's context, and neither an entity nor items nor
\* a token.
C16_StoreErrorsWrapped ==
    last.err.kind = "store" =>
        /\ last.err.ctx # ""
        /\ last.out = Nil
        /\ last.items = <<>>
        /\ last.page = <<>>
        /\ last.token = Nil

\* C18. Every order GetUserOrders(e, opts) returns has UserEmail e, a
\* non-empty OrderID, a non-empty Status, a Total greater than 0 and a
\* non-empty Products list.
C18_ListedOrders ==
    (Typed /\ last.op = "GetUserOrders" /\ last.err = NoErr) =>
        \A i \in 1..Len(last.page) :
            /\ <<85, 83, 69, 82, 35>> \o last.page[i].UserEmail = last.pk
            /\ last.page[i].OrderID # <<>>
            /\ last.page[i].Status # ""
            /\ last.page[i].Total > 0
            /\ Len(last.page[i].Products) > 0

-----------------------------------------------------------------------------
(* The page token (SpecPage).                                              *)

\* C19. A List that returns a token returns a non-empty page, and the token
\* is made of exactly the PK and SK of the page's last item: its PK is the
\* queried partition key, and it is what the store layer made of the
\* store's LastEvaluatedKey, handed on unchanged by the repository.
C19_TokenIsLastKey ==
    (ListedFine /\ last.token # Nil) =>
        /\ Len(last.items) > 0
        /\ Len(last.page) = Len(last.items)
        /\ DOMAIN last.token = {"PK", "SK"}
        /\ last.token.PK = last.items[Len(last.items)].PK
        /\ last.token.SK = last.items[Len(last.items)].SK
        /\ last.token.PK = last.pk
        /\ last.lek # Nil
        /\ last.token.PK = last.lek.PK.S /\ last.token.SK = last.lek.SK.S

\* A page of two orders out of three carries the key pair of its second
\* order as token.
C19_Witness ==
    /\ ListedFine
    /\ Len(last.items) = 2
    /\ Cardinality(Matching(last.pk, last.sk)) = 3
    /\ last.token = [PK |-> last.pk, SK |-> NewOrderSK(ID_10)]

-----------------------------------------------------------------------------
(* Nothing is removed (SpecKeep).                                          *)

\* Every key pair a Put has written holds an item.
AllKept == \A k \in DOMAIN lastPut : \E av \in table : KeyOf(av) = k

\* A Get of a written key pair never reports ErrNotFound, and returns an
\* item whenever its store call is answered.
GetFindsKept ==
    (IsGet /\ LastKey \in DOMAIN lastPut) =>
        /\ last.err # ErrNotFound
        /\ StoreAnswered => (last.err = NoErr /\ last.out # Nil)

\* A pagination loop that ran to its end, with no write into the partition
\* meanwhile or since, has returned every order written for the user.
LoopFindsKept ==
    (trav.st = "done" /\ trav.clean) =>
        \A k \in DOMAIN lastPut :
            (k[1] = NewUserPK(trav.email) /\ BeginsWith(k[2], S_ORDER)) =>
                \E i \in 1..Len(trav.got) : NewOrderSK(trav.got[i].OrderID) = k[2]

\* No step takes a key pair out of the table.
KeysStay == \A av \in table : \E b \in table' : KeyOf(b) = KeyOf(av)

\* C20. Items are never removed: no Put, Get or List takes a key pair out
\* of the table; once a Put to a key pair has succeeded, every later Get of
\* that pair whose store call is answered returns an item, never
\* ErrNotFound, and every later pagination loop over its partition and
\* prefix that runs to its end returns it.
C20_NeverRemoved ==
    /\ [](AllKept /\ GetFindsKept /\ LoopFindsKept)
    /\ [][KeysStay]_vars

\* After an overwrite of the profile and three orders, a Get finds the
\* profile and a loop has returned the three orders.
C20_Witness ==
    /\ trav.st = "done" /\ trav.clean /\ Len(trav.got) = 3
    /\ last.op = "UserGet" /\ last.out # Nil
    /\ Cardinality(DOMAIN lastPut) = 4

-----------------------------------------------------------------------------
(* Callers side by side (SpecConc).                                        *)

\* The table after the first n logged writes, one after the other.
RECURSIVE Replay(_, _)
Replay(log, n) ==
    IF n = 0 THEN {} ELSE DbPutItem(Replay(log, n - 1), log[n].av)

\* What a Put of entity e by operation op is to write.
Intended(op, e) ==
    IF op = "UserPut"
    THEN MarshalItem(UserItem(e), MarshalUser(e))
    ELSE MarshalItem(OrderItem(e), MarshalOrder(e))

\* The table is the successful Puts applied one after the other, each having
\* written the item of the entity its own caller gave.
TableIsReplay ==
    /\ table = Replay(conc.log, Len(conc.log))
    /\ \A i \in 1..Len(conc.log) :
           conc.log[i].av = Intended(conc.log[i].op, conc.log[i].in)

\* What an answered Get of caller p holds: a store error, ErrNotFound, or
\* the whole payload of one logged Put to the key pair.
GetIsWhole(p) ==
    LET r == conc.res[p]
    IN  \/ r.err.kind = "store" /\ r.out = Nil
        \/ r.err = ErrNotFound /\ r.out = Nil
        \/ /\ r.err = NoErr
           /\ \E i \in 1..Len(conc.log) :
                  /\ KeyOf(conc.log[i].av) = <<conc.call[p].pk, conc.call[p].sk>>
                  /\ r.out = UnmarshalUser(conc.log[i].av.data.M)
                  /\ SameUser(r.out, conc.log[i].in)

\* What an answered List of caller p holds: a store error, or the orders of
\* the table as it was after some number of the logged Puts.
ListIsSnapshot(p) ==
    LET r == conc.res[p]
    IN  \/ r.err.kind = "store"
        \/ /\ r.err = NoErr
           /\ \E n \in 0..Len(conc.log) :
                  r.page = GetUserOrders(variant, models, Replay(conc.log, n),
                                         conc.call[p].in, Nil, FALSE).page

ReadsAreWhole ==
    \A p \in DOMAIN conc.pc :
        conc.pc[p] = "answered" =>
            /\ conc.res[p].op = "UserGet" => GetIsWhole(p)
            /\ conc.res[p].op = "GetUserOrders" => ListIsSnapshot(p)

\* A step changes the table at most at the key pair of a Put that is at its
\* client call, and takes no key pair out of it.
OnlyOwnKey ==
    /\ KeysStay
    /\ \A av \in table' :
           \/ av \in table
           \/ \E p \in DOMAIN conc.pc :
                  /\ conc.pc[p] = "staged" /\ conc'.pc[p] = "answered"
                  /\ IsPutOp(conc.call[p].op)
                  /\ KeyOf(av) = <<conc.call[p].pk, conc.call[p].sk>>
                  /\ av = Intended(conc.call[p].op, conc.call[p].in)

\* C17. Calls of several callers on one repository are independent: under
\* every interleaving of Put, Get and List calls the table is the result of
\* applying the successful Puts one after the other, each Put having
\* written its own caller's entity at its own key pair and nothing else; a
\* Put never changes or loses the item at another key pair; a Get returns
\* ErrNotFound or the whole payload of one Put to that key pair, and a List
\* the orders of the table as it was between two Puts.
C17_Independent ==
    /\ [](TableIsReplay /\ ReadsAreWhole)
    /\ [][OnlyOwnKey]_vars

\* One caller's Get holds the first payload while the other caller's Put of
\* a second payload to the same key pair has overwritten it; an order is
\* in the table too.
C17_Witness ==
    /\ Len(conc.log) = 3
    /\ conc.pc["a"] = "answered" /\ conc.res["a"].op = "UserGet"
    /\ conc.res["a"].err = NoErr
    /\ \E av \in table :
           /\ KeyOf(av) = <<conc.call["a"].pk, conc.call["a"].sk>>
           /\ av # Intended("UserPut", conc.res["a"].out)
    /\ \E av \in table : av.entity_type.S = EntityOrder
    /\ conc.pc["b"] = "answered" /\ conc.res["b"].op = "UserPut"

-----------------------------------------------------------------------------
(* What an operation leaves alone (Spec).                                  *)

\* The items of table t away from key pair k.
Elsewhere(t, k) == {av \in t : KeyOf(av) # k}

\* The step just taken, read off the record of the call it leaves: a Get, a
\* List or a Put that did not succeed leaves the table as it was; a Put that
\* succeeded leaves every item away from its own key pair as it was.
FrameStep ==
    /\ (IsGet' \/ IsList') => table' = table
    /\ (IsPut' /\ last'.err # NoErr) => table' = table
    /\ (IsPut' /\ last'.err = NoErr) =>
          Elsewhere(table', LastKey') = Elsewhere(table, LastKey')

\* C21. Frame: a Get and a List leave the table unchanged whatever their
\* outcome, and a successful Put changes only the item at its own key pair;
\* every other item, those of the same partition included, stays as it was.
C21_Frame == [][FrameStep]_vars

\* A successful Put has replaced the item at its key pair in a partition
\* that holds another item.
C21_Witness ==
    /\ IsPut /\ last.err = NoErr
    /\ last.prev # Nil /\ last.prev \notin table
    /\ \E av \in table : av.PK.S = last.pk /\ av.SK.S # last.sk

-----------------------------------------------------------------------------
(* The pagination loop beside writers (SpecTrav).                          *)

\* The sort key of the i-th order the loop has returned.
GotKey(i) == NewOrderSK(trav.got[i].OrderID)

\* The orders returned so far, page after page, are in strictly ascending
\* sort-key order.
GotAscending ==
    \A i, j \in 1..Len(trav.got) : i < j => StrLess(GotKey(i), GotKey(j))

\* A loop that has come to its end has returned every order that was there
\* when it began, once.
GotAllBefore ==
    trav.st = "done" =>
        \A sk \in trav.before :
            Cardinality({i \in 1..Len(trav.got) : GotKey(i) = sk}) = 1

\* C22. Pagination beside writers: while a caller follows NextPageToken from
\* the first page to the end and Puts into the same partition go on between
\* its calls, the sort keys returned across the pages are strictly
\* increasing, so no order comes twice, and every order that was in the
\* partition before the loop began is returned exactly once.
C22_TraversalBesideWrites == GotAscending /\ GotAllBefore

\* A loop over two orders has ended after a Put into the partition between
\* its calls, with more than one page read.
C22_Witness ==
    /\ trav.st = "done" /\ ~trav.clean
    /\ Cardinality(trav.before) = 2
    /\ trav.calls >= 2
    /\ Cardinality(Matching(NewUserPK(trav.email), S_ORDER)) = 3

-----------------------------------------------------------------------------
(* The number of calls of the pagination loop (SpecLoop).                  *)

\* ceil(n / l)
CeilDiv(n, l) == (n + l - 1) \div l

\* The user's orders the loop is reading.
LoopMatching == Matching(NewUserPK(trav.email), S_ORDER)

\* All the user's orders together fit in one response of the store.
LoopFitsResponse ==
    LET sorted == SortBySK(LoopMatching)
    IN  SumSize(sorted, Len(sorted)) <= PageCap

\* The loop has left "for": by break on a nil token or by log.Fatalf.
LoopEnded == trav.st \in {"done", "failed"}

LoopTerminates == (trav.st = "run") ~> LoopEnded

\* The loop makes at most ceil(N/L) + 1 calls.
CallsWithinPages ==
    trav.st # "idle" =>
        trav.calls <= CeilDiv(Cardinality(LoopMatching), trav.limit) + 1

\* The statement as the specification makes it: the loop ends, after at most
\* ceil(N/L) + 1 List calls.
C23_TerminatesWithinPages == LoopTerminates /\ []CallsWithinPages

\* C23. The loop that repeats List with limit L > 0 and the token of the
\* page before, over N orders and with no writer beside it, ends; it makes
\* at most N + 1 List calls, and at most ceil(N/L) + 1 when the N orders
\* together fit in one response of the store.
C23_Terminates ==
    /\ LoopTerminates
    /\ [](trav.st # "idle" => trav.calls <= Cardinality(LoopMatching) + 1)
    /\ [](LoopFitsResponse => CallsWithinPages)

\* A loop with limit 2 over four orders, of which no two fit in one
\* response, has ended after four calls.
C23_Witness ==
    /\ trav.st = "done"
    /\ trav.limit = 2
    /\ Cardinality(LoopMatching) = 4
    /\ trav.calls = 4
    /\ Len(trav.got) = 4

-----------------------------------------------------------------------------
(* The envelope (Spec).                                                    *)

\* The kind of entity a payload is, by the fields it has.
PayloadKind(data) ==
    IF "order_id" \in DOMAIN data THEN "ORDER"
    ELSE IF "product_id" \in DOMAIN data THEN "PRODUCT"
    ELSE IF "email" \in DOMAIN data THEN "USER"
    ELSE "?"

\* The tag of an item names the kind of its payload, and its key pair is
\* the kind's: "USER#"+email and "PROFILE#"+email, "USER#"+user_email and
\* "ORDER#"+order_id, "PRODUCT#ALL" and "PRODUCT#"+product_id.
EnvelopeConsistent(av) ==
    /\ av.entity_type.S = PayloadKind(av.data.M)
    /\ CASE av.entity_type.S = "USER" ->
              /\ av.PK.S = <<85, 83, 69, 82, 35>> \o av.data.M.email.S
              /\ av.SK.S = <<80, 82, 79, 70, 73, 76, 69, 35>> \o av.data.M.email.S
         [] av.entity_type.S = "ORDER" ->
              /\ av.PK.S = <<85, 83, 69, 82, 35>> \o av.data.M.user_email.S
              /\ av.SK.S = <<79, 82, 68, 69, 82, 35>> \o av.data.M.order_id.S
         [] av.entity_type.S = "PRODUCT" ->
              /\ av.PK.S = <<80, 82, 79, 68, 85, 67, 84, 35, 65, 76, 76>>
              /\ av.SK.S = <<80, 82, 79, 68, 85, 67, 84, 35>> \o av.data.M.product_id.S
         [] OTHER -> FALSE

-----------------------------------------------------------------------------
(* Keys of empty identities (Spec).                                        *)

\* A key pair built from an empty identity: PK "USER#", or SK "PROFILE#",
\* "ORDER#" or "PRODUCT#".
DegenerateKey(av) ==
    \/ av.PK.S = <<85, 83, 69, 82, 35>>
    \/ av.SK.S = <<80, 82, 79, 70, 73, 76, 69, 35>>
    \/ av.SK.S = <<79, 82, 68, 69, 82, 35>>
    \/ av.SK.S = <<80, 82, 79, 68, 85, 67, 84, 35>>

\* C25. No degenerate keys: after any sequence of repository Put calls the
\* table holds no item whose key was built from an empty identity; a Put of
\* an entity with an empty identity field ends in a validation error before
\* any key made of it is written.
C25_NoDegenerateKeys ==
    Typed =>
        /\ \A av \in table : ~DegenerateKey(av)
        /\ (IsPut /\ DegenerateKey(Stored(models, last.op, last.in))) =>
               last.err = ErrValidation /\ last.calls.put = 0

-----------------------------------------------------------------------------
(* Key pairs of different entities (SpecKeys).                             *)

\* C26. Key injectivity: two users with different emails, two orders that
\* differ in user email or order ID, two products with different IDs, and
\* two entities of different kinds never get the same (PK, SK) pair.
C26_KeysInjective ==
    (last.op = "KeyFor" /\ last.prev # Nil /\ last.prev.in # last.in) =>
        <<last.prev.pk, last.prev.sk>> # <<last.pk, last.sk>>

\* The key pairs of a user "#" and of an order "1" of user "#" have been
\* built one after the other: one partition, two sort keys.
C26_Witness ==
    /\ last.op = "KeyFor" /\ last.prev # Nil
    /\ last.prev.in = [kind |-> EntityUser, email |-> <<35>>]
    /\ last.in = [kind |-> EntityOrder, email |-> <<35>>, id |-> ID_1]
    /\ last.pk = last.prev.pk
    /\ last.sk # last.prev.sk

-----------------------------------------------------------------------------
(* Options without a positive limit (SpecPage).                            *)

\* The request of an unlimited query of the last call's partition and
\* prefix from the last call's page token.
UnlimitedFromToken ==
    [pk                |-> last.pk,
     sk                |-> last.sk,
     HasLimit          |-> FALSE,
     Limit             |-> 0,
     ExclusiveStartKey |-> IF HasToken
                           THEN [PK |-> [S |-> last.opts.PageToken.PK],
                                 SK |-> [S |-> last.opts.PageToken.SK]]
                           ELSE Nil]

\* The last call has answered as the store answers request in.
AnsweredAs(in) ==
    IF StartKeyValid(in)
    THEN /\ last.err = NoErr
         /\ Len(last.items) = Len(DbQuery(table, in).Items)
         /\ \A i \in 1..Len(last.items) :
                <<last.items[i].PK, last.items[i].SK>> = KeyOf(DbQuery(table, in).Items[i])
         /\ last.lek = DbQuery(table, in).LastEvaluatedKey
         /\ last.token # Nil <=> last.lek # Nil
    ELSE last.err.kind = "store" /\ last.items = <<>>

\* C27. A limit is applied only when it is greater than 0: a Query with nil
\* options, with Limit 0 or with a negative Limit answers as an unlimited
\* query from the same page token; a page token is the exclusive start key
\* of the read whether or not a limit is set.
C27_LimitOnlyWhenPositive ==
    (Typed /\ IsList) =>
        /\ AskedLimit = 0 => AnsweredAs(UnlimitedFromToken)
        /\ HasToken =>
              /\ ~StartKeyValid(UnlimitedFromToken) => last.err.kind = "store"
              /\ \A i \in 1..Len(last.items) :
                    StrLess(last.opts.PageToken.SK, last.items[i].SK)

\* A Query with Limit -1 and the token of the first order has returned the
\* two orders after it.
C27_Witness ==
    /\ ListedFine /\ HasToken
    /\ last.opts.Limit = -1
    /\ last.opts.PageToken.SK = NewOrderSK(ID_1)
    /\ Len(last.items) = 2
    /\ last.token = Nil

-----------------------------------------------------------------------------
(* One store call per operation (Spec).                                    *)

\* The entity of the last Put passes the Validate of package models.
ValidationPasses ==
    CASE last.op = "UserPut"    -> UserValidate(models, last.in)
      [] last.op = "OrderPut"   -> OrderValidate(models, last.in)
      [] last.op = "ProductPut" -> ProductValidate(models, last.in)

\* The store calls the last operation made.
StoreCalls == last.calls.put + last.calls.get + last.calls.query

-----------------------------------------------------------------------------
(* EnsureTableExists (SpecTable).                                          *)

\* A call that returns success leaves a table that exists and is ready.
ReadyOnSuccess ==
    (ddl.pc = "returned" /\ ddl.result = "nil") => ddl.at = "ACTIVE"

\* CreateTable is called only after the existence check said "not found",
\* and at most once.
CreateOnlyWhenNotFound ==
    /\ ddl.pc = "create" => ddl.descr = "notfound"
    /\ ddl.creates > 0 => ddl.descr = "notfound"
    /\ ddl.creates <= 1

\* A call that created the table and returns success has waited for it.
WaitsAfterCreate ==
    (ddl.pc = "returned" /\ ddl.result = "nil" /\ ddl.creates > 0) => ddl.waited

\* Another error of the existence check is returned, with no create call.
OtherErrorReturned ==
    ddl.descr = "other" =>
        /\ ddl.creates = 0
        /\ ddl.pc = "returned" /\ ddl.result = "err"

\* C29. EnsureTableExists: whenever it returns success the table exists and
\* is ready for use; it calls CreateTable only when the existence check
\* reports the table as not found, never when the table is there; it waits
\* for readiness after creating; any other error of the existence check is
\* returned without a create call.
C29_EnsureTable ==
    /\ ReadyOnSuccess
    /\ CreateOnlyWhenNotFound
    /\ WaitsAfterCreate
    /\ OtherErrorReturned

-----------------------------------------------------------------------------
(* Table names (SpecName).                                                 *)

\* C30. sanitizeTableName returns, for every input string, a name made only
\* of letters, digits, '_', '.' and '-', that starts with a letter or a
\* digit and has length at least 3.
C30_SanitizedName ==
    last.op = "sanitizeTableName" =>
        /\ \A i \in 1..Len(last.out) : IsNameRune(last.out[i])
        /\ Len(last.out) >= 3
        /\ IsAlnum(last.out[1])

====
